---- MODULE Spec2Model ----
(***************************************************************************)
(* UK vacancies revision pipeline: src/UK_Vacancies_Analysis.py (the class *)
(* based script) and src/initial_script.py (the first, linear variant).    *)
(*                                                                         *)
(* Text is a sequence of one-character strings.  A missing cell (pandas    *)
(* NaN / NaT) is the empty sequence, a present one a one-element sequence. *)
(* A month is the integer yyyymm, a release date the integer yyyymmdd.     *)
(***************************************************************************)
EXTENDS Integers, Sequences, FiniteSets, TLC

VARIABLES
    pc,             \* position of the script / of the function under study
    i,              \* loop variable of download_csv_files
    dir,            \* the data directory: identifier -> file content
    pending,        \* identifiers os.listdir has not yet yielded
    filepath,       \* the file parse_monthly_series was last called on
    vintage,        \* its local `vintage`
    df,             \* its return value
    dataframes,     \* the local list of consolidate_all_data
    all_data,       \* the module-level table
    consolidated,   \* history: the table as consolidate_all_data returned it
    exported,       \* output files written so far
    started,        \* history: stages that have been entered
    raised,         \* the uncaught exception that ended the run, or "none"
    latest_data,    \* local of forecast_vacancies
    ts,             \* local of forecast_vacancies (the canonical series)
    forecast_steps, \* parameter of forecast_vacancies
    forecast_df,    \* its return value
    start,          \* parameter of download_csv_files
    end,            \* parameter of download_csv_files
    delay_seconds,  \* parameter of download_csv_files
    log             \* history: what download_csv_files did, in order

vars == <<pc, i, dir, pending, filepath, vintage, df, dataframes, all_data,
          consolidated, exported, started, raised, latest_data, ts,
          forecast_steps, forecast_df, start, end, delay_seconds, log>>

\* ------------------------------------------------------------------ bounds
\* download_csv_files(start=StartId, end=1): the identifiers StartId, ..., 1.
StartId == 2
\* Number of lines of a generated snapshot file (parser specification).
MaxLines == 2
\* Number of rows of a generated Revision Table (forecast specification).
MaxRows == 3
\* Largest forecast horizon tried (forecast specification).
MaxSteps == 2
\* Largest delay_seconds tried (download specification).
MaxDelay == 2

\* ------------------------------------------------------------------- text
NaT == <<>>
NaN == <<>>

Digits == <<"0", "1", "2", "3", "4", "5", "6", "7", "8", "9">>
UpperLetters ==
    <<"A", "B", "C", "D", "E", "F", "G", "H", "I", "J", "K", "L", "M",
      "N", "O", "P", "Q", "R", "S", "T", "U", "V", "W", "X", "Y", "Z">>
LowerLetters ==
    <<"a", "b", "c", "d", "e", "f", "g", "h", "i", "j", "k", "l", "m",
      "n", "o", "p", "q", "r", "s", "t", "u", "v", "w", "x", "y", "z">>

IsDigit(c) == \E k \in 1..10 : Digits[k] = c
IsUpper(c) == \E k \in 1..26 : UpperLetters[k] = c
IsLower(c) == \E k \in 1..26 : LowerLetters[k] = c
IsCased(c) == IsUpper(c) \/ IsLower(c)
DigitVal(c) == (CHOOSE k \in 1..10 : Digits[k] = c) - 1
ToLower(c) ==
    IF IsUpper(c) THEN LowerLetters[CHOOSE k \in 1..26 : UpperLetters[k] = c]
    ELSE c
ToUpper(c) ==
    IF IsLower(c) THEN UpperLetters[CHOOSE k \in 1..26 : LowerLetters[k] = c]
    ELSE c

\* int() of the digits s[a..b]
RECURSIVE DigitsVal(_, _, _)
DigitsVal(s, a, b) ==
    IF b < a THEN 0 ELSE DigitsVal(s, a, b - 1) * 10 + DigitVal(s[b])

\* str.title(): a cased character is upper-cased when the character before it
\* is not cased, lower-cased otherwise.
Title(s) ==
    [k \in 1..Len(s) |->
        IF ~IsCased(s[k]) THEN s[k]
        ELSE IF k > 1 /\ IsCased(s[k - 1]) THEN ToLower(s[k])
        ELSE ToUpper(s[k])]

\* str.replace('"', '')
RECURSIVE StripQuotes(_)
StripQuotes(s) ==
    IF s = <<>> THEN <<>>
    ELSE IF Head(s) = "\"" THEN StripQuotes(Tail(s))
    ELSE <<Head(s)>> \o StripQuotes(Tail(s))

\* `needle in s`
Contains(s, needle) ==
    \E k \in 1..(Len(s) - Len(needle) + 1) :
        SubSeq(s, k, k + Len(needle) - 1) = needle

\* --------------------------------------------------------------- calendar
MonthAbbr ==
    << <<"J", "a", "n">>, <<"F", "e", "b">>, <<"M", "a", "r">>,
       <<"A", "p", "r">>, <<"M", "a", "y">>, <<"J", "u", "n">>,
       <<"J", "u", "l">>, <<"A", "u", "g">>, <<"S", "e", "p">>,
       <<"O", "c", "t">>, <<"N", "o", "v">>, <<"D", "e", "c">> >>

LowerSeq(s) == [k \in 1..Len(s) |-> ToLower(s[k])]

IsLeap(y) == (y % 4 = 0 /\ y % 100 # 0) \/ y % 400 = 0
DaysInMonth(y, m) ==
    IF m = 2 THEN (IF IsLeap(y) THEN 29 ELSE 28)
    ELSE IF m \in {4, 6, 9, 11} THEN 30 ELSE 31

YearOf(d) == d \div 100
MonthOf(d) == d % 100

\* --------------------------------------------------- extract_vintage_date
ReleaseMarker == <<"R", "e", "l", "e", "a", "s", "e", " ", "d", "a", "t", "e">>

\* The text of a line of the file: its two cells as written.
LineText(line) == line.RawDate \o <<",">> \o line.Value

\* \d{2}-\d{2}-\d{4} at position k of s
DatePatternAt(s, k) ==
    /\ k + 9 <= Len(s)
    /\ \A j \in {0, 1, 3, 4, 6, 7, 8, 9} : IsDigit(s[k + j])
    /\ s[k + 2] = "-"
    /\ s[k + 5] = "-"

\* re.search: position of the leftmost match, 0 when there is none
ReSearchDate(s) ==
    IF \E k \in 1..Len(s) : DatePatternAt(s, k)
    THEN CHOOSE k \in 1..Len(s) :
            DatePatternAt(s, k) /\ \A j \in 1..(k - 1) : ~DatePatternAt(s, j)
    ELSE 0

\* pd.to_datetime(text, format="%d-%m-%Y") on the ten matched characters at k:
\* <<yyyymmdd>>, or <<>> when strptime raises (caught at line 54).
ToDatetimeDMY(s, k) ==
    LET d == DigitsVal(s, k, k + 1)
        m == DigitsVal(s, k + 3, k + 4)
        y == DigitsVal(s, k + 6, k + 9)
    IN  IF m >= 1 /\ m <= 12 /\ d >= 1 /\ d <= DaysInMonth(y, m)
        THEN <<y * 10000 + m * 100 + d>>
        ELSE NaT

\* Mutant of ScanLines: the last matching line wins instead of the first.
RECURSIVE ScanLinesLast(_, _)
ScanLinesLast(lines, k) ==
    IF k > Len(lines) THEN NaT
    ELSE LET text == LineText(lines[k])
             pos == ReSearchDate(text)
             rest == ScanLinesLast(lines, k + 1)
         IN  IF Contains(text, ReleaseMarker) /\ pos # 0 /\ rest = NaT
             THEN ToDatetimeDMY(text, pos)
             ELSE rest

RECURSIVE ScanLines(_, _)
ScanLines(lines, k) ==
    IF k > Len(lines) THEN NaT
    ELSE LET text == LineText(lines[k])
             pos == ReSearchDate(text)
         IN  IF Contains(text, ReleaseMarker) /\ pos # 0
             THEN ToDatetimeDMY(text, pos)
             ELSE ScanLines(lines, k + 1)

extract_vintage_date(f) ==
    IF ~f.readable THEN NaT ELSE ScanLines(f.lines, 1)

\* --------------------------------------------------- parse_monthly_series
\* Series.str.match(r"\d{4} [A-Z]{3}", na=False): anchored at the start only.
StrMatchMonthly(s) ==
    /\ Len(s) >= 8
    /\ \A k \in 1..4 : IsDigit(s[k])
    /\ s[5] = " "
    /\ \A k \in 6..8 : IsUpper(s[k])

\* Number of white-space characters of s from position k on.
RECURSIVE SpacesFrom(_, _)
SpacesFrom(s, k) ==
    IF k <= Len(s) /\ s[k] = " " THEN 1 + SpacesFrom(s, k + 1) ELSE 0

\* Mutant of ToDatetimeYb: the match is not exact, what follows the month
\* abbreviation is ignored.
ToDatetimeYbPrefix(s) ==
    IF /\ Len(s) >= 8
       /\ \A k \in 1..4 : IsDigit(s[k])
       /\ s[5] = " "
       /\ \E m \in 1..12 : LowerSeq(MonthAbbr[m]) = LowerSeq(SubSeq(s, 6, 8))
    THEN <<DigitsVal(s, 1, 4) * 100
            + (CHOOSE m \in 1..12 :
                 LowerSeq(MonthAbbr[m]) = LowerSeq(SubSeq(s, 6, 8)))>>
    ELSE NaT

\* pd.to_datetime(text, format="%Y %b", errors="coerce"): four digits, white
\* space, a month abbreviation in any case, and nothing after it (the match
\* is exact; what does not match becomes NaT).
ToDatetimeYb(s) ==
    LET w == SpacesFrom(s, 5)
        name == LowerSeq(SubSeq(s, 5 + w, Len(s)))
    IN  IF /\ Len(s) = 4 + w + 3
           /\ w >= 1
           /\ \A k \in 1..4 : IsDigit(s[k])
           /\ \E m \in 1..12 : LowerSeq(MonthAbbr[m]) = name
        THEN <<DigitsVal(s, 1, 4) * 100
                + (CHOOSE m \in 1..12 : LowerSeq(MonthAbbr[m]) = name)>>
        ELSE NaT

\* pd.to_numeric(text, errors="coerce") of an integer literal
ToNumeric(s) ==
    LET body == IF s # <<>> /\ Head(s) = "-" THEN Tail(s) ELSE s
        n == DigitsVal(body, 1, Len(body))
    IN  IF body # <<>> /\ \A k \in 1..Len(body) : IsDigit(body[k])
        THEN <<IF body = s THEN n ELSE 0 - n>>
        ELSE NaN

\* Lines 63-67 on row k (the pandas index k is kept by the filter).
RowPasses(lines, k) ==
    /\ StrMatchMonthly(lines[k].RawDate)
    /\ ToDatetimeYb(Title(lines[k].RawDate)) # NaT
    /\ ToNumeric(StripQuotes(lines[k].Value)) # NaN

ParsedRow(lines, k, v) ==
    [idx |-> k,
     Date |-> ToDatetimeYb(Title(lines[k].RawDate))[1],
     Value |-> ToNumeric(StripQuotes(lines[k].Value))[1],
     Vintage |-> v]

RECURSIVE ParseRows(_, _, _)
ParseRows(lines, k, v) ==
    IF k > Len(lines) THEN <<>>
    ELSE IF RowPasses(lines, k)
         THEN <<ParsedRow(lines, k, v)>> \o ParseRows(lines, k + 1, v)
         ELSE ParseRows(lines, k + 1, v)

\* An empty sequence is the empty DataFrame of lines 68 and 71.
parse_monthly_series(f) ==
    IF ~f.readable \/ ~f.tabular THEN <<>>
    ELSE ParseRows(f.lines, 1, extract_vintage_date(f))

\* --------------------------------------------------- consolidate_all_data
Columns == <<"Date", "Value", "Vintage">>
EmptyTable == [columns |-> <<>>, rows |-> <<>>]

\* pd.concat(dataframes, ignore_index=True): the rows of every frame in list
\* order, renumbered (positions are 1-based here).
RECURSIVE Flatten(_)
Flatten(frames) ==
    IF frames = <<>> THEN <<>> ELSE Head(frames) \o Flatten(Tail(frames))

Concat(frames) ==
    LET rows == Flatten(frames)
    IN  [columns |-> Columns,
         rows |-> [k \in 1..Len(rows) |-> [rows[k] EXCEPT !.idx = k]]]

\* ------------------------------------------------- create_visualisations
RECURSIVE IntToText(_, _)
IntToText(n, width) ==
    IF width = 0 THEN <<>>
    ELSE IntToText(n \div 10, width - 1) \o <<Digits[(n % 10) + 1]>>

\* Timestamp.strftime("%b %Y")
MonthLabel(d) == MonthAbbr[MonthOf(d)] \o <<" ">> \o IntToText(YearOf(d), 4)

\* all_data["MonthLabel"] = ... : the column is added to the caller's table.
WithMonthLabel(t) ==
    [columns |-> t.columns \o <<"MonthLabel">>,
     rows |-> [k \in 1..Len(t.rows) |->
                 [idx |-> t.rows[k].idx,
                  Date |-> t.rows[k].Date,
                  Value |-> t.rows[k].Value,
                  Vintage |-> t.rows[k].Vintage,
                  MonthLabel |-> MonthLabel(t.rows[k].Date)]]]

DatesOf(rows) == {rows[k].Date : k \in 1..Len(rows)}

\* default_month of the dropdown chart, pd.to_datetime("2024-01-01")
default_month == 202401

\* ----------------------------------------------------- forecast_vacancies
\* Mutant of AddMonth: December is followed by a thirteenth month.
AddMonthNoRollover(d) == d + 1

\* Timestamp + pd.DateOffset(months=1) on a first-of-month date
AddMonth(d) ==
    IF MonthOf(d) = 12 THEN (YearOf(d) + 1) * 100 + 1 ELSE d + 1

\* pd.date_range(start=first, periods=n, freq="MS")
RECURSIVE DateRange(_, _)
DateRange(first, n) ==
    IF n = 0 THEN <<>> ELSE <<first>> \o DateRange(AddMonth(first), n - 1)

\* pd.date_range(first, last, freq="MS"), the grid of asfreq
RECURSIVE DateGrid(_, _)
DateGrid(first, last) ==
    IF first > last THEN <<>>
    ELSE <<first>> \o DateGrid(AddMonth(first), last)

\* sort_values("Vintage"): rows with a known vintage come first, in ascending
\* vintage, equal vintages in an order the sort algorithm (quicksort) is free
\* to choose; rows with a missing vintage are appended last (na_position),
\* in table order.  Row k can therefore end its Date group exactly when
\*   - its vintage is missing and no later row of the group misses it, or
\*   - no row of the group misses its vintage and none has a later one.
CanBeGroupTail(rows, k) ==
    LET group == {j \in 1..Len(rows) : rows[j].Date = rows[k].Date}
    IN  IF rows[k].Vintage = NaT
        THEN \A j \in group : rows[j].Vintage = NaT => j <= k
        ELSE \A j \in group :
                /\ rows[j].Vintage # NaT
                /\ rows[j].Vintage[1] <= rows[k].Vintage[1]

\* groupby("Date").tail(1): one row per Date, the last of its group.
IsGroupTails(rows, picks) ==
    /\ \A k \in picks : CanBeGroupTail(rows, k)
    /\ \A d \in DatesOf(rows) :
          Cardinality({k \in picks : rows[k].Date = d}) = 1

\* sort_values("Date") of rows with distinct dates
RECURSIVE SortByDate(_, _)
SortByDate(rows, picks) ==
    IF picks = {} THEN <<>>
    ELSE LET k == CHOOSE a \in picks :
                     \A b \in picks : rows[a].Date <= rows[b].Date
         IN  <<rows[k]>> \o SortByDate(rows, picks \ {k})

\* Mutant of AsFreq: the series keeps the observed months only.
AsFreqObservedOnly(latest) ==
    [k \in 1..Len(latest) |->
       [Date |-> latest[k].Date, Value |-> <<latest[k].Value>>]]

\* set_index("Date")["Value"].asfreq("MS"): every month of the grid, with the
\* value of its row or a missing value.
AsFreq(latest) ==
    LET grid == DateGrid(latest[1].Date, latest[Len(latest)].Date)
    IN  [k \in 1..Len(grid) |->
           [Date |-> grid[k],
            Value |-> IF \E j \in 1..Len(latest) : latest[j].Date = grid[k]
                      THEN <<latest[CHOOSE j \in 1..Len(latest) :
                                       latest[j].Date = grid[k]].Value>>
                      ELSE NaN]]

\* forecast_dates, the Date column of forecast_df
ForecastDates(series, steps) ==
    DateRange(AddMonth(series[Len(series)].Date), steps)

\* ------------------------------------------------------ input catalogue
Line(label, value) == [RawDate |-> label, Value |-> value]

RelV1 ==
    Line(ReleaseMarker,
         <<"1", "0", "-", "0", "1", "-", "2", "0", "2", "4">>)
RelV2 ==
    Line(ReleaseMarker,
         <<"1", "0", "-", "0", "2", "-", "2", "0", "2", "4">>)
RelInvalid ==
    Line(ReleaseMarker,
         <<"3", "1", "-", "0", "2", "-", "2", "0", "2", "4">>)
RelNoDate ==
    Line(ReleaseMarker,
         <<>>)
RelTwoDates ==
    Line(ReleaseMarker,
         <<"1", "1", "0", "-", "0", "2", "-", "2", "0", "2", "4", "/", "0", "9", "-", "0", "1", "-", "2", "0", "2", "4">>)
NextRelease ==
    Line(<<"N", "e", "x", "t", " ", "r", "e", "l", "e", "a", "s", "e">>,
         <<"1", "2", "-", "0", "3", "-", "2", "0", "2", "4">>)
Nov90 ==
    Line(<<"2", "0", "2", "3", " ", "N", "O", "V">>,
         <<"\"", "9", "0", "\"">>)
Dec95 ==
    Line(<<"2", "0", "2", "3", " ", "D", "E", "C">>,
         <<"9", "5">>)
Jan100 ==
    Line(<<"2", "0", "2", "4", " ", "J", "A", "N">>,
         <<"1", "0", "0">>)
Jan102 ==
    Line(<<"2", "0", "2", "4", " ", "J", "A", "N">>,
         <<"1", "0", "2">>)
Jan99 ==
    Line(<<"2", "0", "2", "4", " ", "J", "A", "N">>,
         <<"9", "9">>)
Feb110 ==
    Line(<<"2", "0", "2", "4", " ", "F", "E", "B">>,
         <<"1", "1", "0">>)
Mar0 ==
    Line(<<"2", "0", "2", "4", " ", "M", "A", "R">>,
         <<"0">>)
Quarterly ==
    Line(<<"2", "0", "2", "4", " ", "Q", "1">>,
         <<"3", "0", "0">>)
Annual ==
    Line(<<"2", "0", "2", "4">>,
         <<"1", "2", "0", "0">>)
JanLong ==
    Line(<<"2", "0", "2", "4", " ", "J", "A", "N", "U", "A", "R", "Y">>,
         <<"1", "0", "1">>)
JanLower ==
    Line(<<"2", "0", "2", "4", " ", "j", "a", "n">>,
         <<"7">>)
NotAMonth ==
    Line(<<"2", "0", "2", "4", " ", "X", "Y", "Z">>,
         <<"5">>)
FebNoNumber ==
    Line(<<"2", "0", "2", "4", " ", "F", "E", "B">>,
         <<"n", "/", "a">>)
MarNoValue ==
    Line(<<"2", "0", "2", "4", " ", "M", "A", "R">>,
         <<>>)

File(r, t, lines) == [readable |-> r, tabular |-> t, lines |-> lines]

\* What a download can leave in the directory.
FileCatalogue ==
    { File(TRUE, TRUE, <<RelV1, Dec95, Jan100, Quarterly>>),
      File(TRUE, TRUE, <<RelNoDate, RelV2, Jan102, Feb110>>),
      File(TRUE, TRUE, <<NextRelease, Jan99>>),
      File(TRUE, TRUE, <<RelV2, Jan102, Jan100>>),
      File(TRUE, TRUE, <<RelV1, Nov90, JanLong>>),
      File(TRUE, TRUE, <<RelV1, Quarterly, Annual>>),
      File(TRUE, FALSE, <<RelV1, Jan100>>),
      File(FALSE, FALSE, <<RelV1, Jan100>>) }

LineCatalogue ==
    { RelV1, RelV2, RelInvalid, RelNoDate, RelTwoDates, NextRelease,
      Nov90, Dec95, Jan100, Mar0, Quarterly, Annual, JanLong, JanLower,
      NotAMonth, FebNoNumber, MarNoValue }

SeqsUpTo(S, n) == UNION {[1..k -> S] : k \in 0..n}

GeneratedFiles ==
    { File(r, t, lines) :
        r \in BOOLEAN, t \in BOOLEAN, lines \in SeqsUpTo(LineCatalogue, MaxLines) }

V1 == <<20240110>>
V2 == <<20240210>>

Row(d, v, vin) == [idx |-> 0, Date |-> d, Value |-> v, Vintage |-> vin]

RowCatalogue ==
    { Row(202311, 90, V1), Row(202312, 95, V1), Row(202401, 100, V1),
      Row(202401, 102, V2), Row(202401, 99, NaT), Row(202312, 96, NaT),
      Row(202401, 103, V2) }

GeneratedTables ==
    { Concat(<<rows>>) : rows \in SeqsUpTo(RowCatalogue, MaxRows) \ {<<>>} }

\* ---------------------------------------------------------------- actions
Event(op, arg) == [op |-> op, arg |-> arg]

\* Mutant of DownloadFail: the exception leaves the loop.
DownloadFailLeavesLoop ==
    /\ pc = "download"
    /\ log' = log \o <<Event("request", i), Event("warning", i)>>
    /\ i' = i - 1
    /\ pc' = "consolidate"
    /\ UNCHANGED <<dir, pending, filepath, vintage, df, dataframes, all_data,
                   consolidated, exported, started, raised, latest_data, ts,
                   forecast_steps, forecast_df, start, end, delay_seconds>>

\* download_csv_files, one iteration of the loop: the request succeeded, the
\* content was written to v{i}.csv and logged, then the loop slept.
DownloadOk ==
    /\ pc = "download"
    /\ \E f \in FileCatalogue :
          dir' = [j \in DOMAIN dir \cup {i} |-> IF j = i THEN f ELSE dir[j]]
    /\ log' = log \o <<Event("request", i), Event("write", i),
                       Event("info", i), Event("sleep", delay_seconds)>>
    /\ i' = i - 1
    /\ pc' = IF i - 1 < end THEN "consolidate" ELSE "download"
    /\ UNCHANGED <<pending, filepath, vintage, df, dataframes, all_data,
                   consolidated, exported, started, raised, latest_data, ts,
                   forecast_steps, forecast_df, start, end, delay_seconds>>

\* ... the request raised: nothing is written, the failure is logged as a
\* warning, then the loop slept.
DownloadFail ==
    /\ pc = "download"
    /\ log' = log \o <<Event("request", i), Event("warning", i),
                       Event("sleep", delay_seconds)>>
    /\ i' = i - 1
    /\ pc' = IF i - 1 < end THEN "consolidate" ELSE "download"
    /\ UNCHANGED <<dir, pending, filepath, vintage, df, dataframes, all_data,
                   consolidated, exported, started, raised, latest_data, ts,
                   forecast_steps, forecast_df, start, end, delay_seconds>>

\* The message of the ValueError of line 84
NoDataError == "ValueError: No valid dataframes to consolidate."

\* Mutant of ConsolidateFile: the frame is appended without the emptiness test.
ConsolidateFileNoEmptyTest ==
    /\ pc = "consolidate"
    /\ \E j \in DOMAIN dir \ {pending[k] : k \in 1..Len(pending)} :
          /\ pending' = Append(pending, j)
          /\ filepath' = dir[j]
          /\ vintage' = extract_vintage_date(dir[j])
          /\ df' = parse_monthly_series(dir[j])
          /\ dataframes' = Append(dataframes, parse_monthly_series(dir[j]))
    /\ UNCHANGED <<pc, i, dir, all_data, consolidated, exported, started,
                   raised, latest_data, ts, forecast_steps, forecast_df,
                   start, end, delay_seconds, log>>

\* consolidate_all_data, one iteration over os.listdir (whose order is
\* arbitrary): pending holds the identifiers already yielded.
ConsolidateFile ==
    /\ pc = "consolidate"
    /\ \E j \in DOMAIN dir \ {pending[k] : k \in 1..Len(pending)} :
          /\ pending' = Append(pending, j)
          /\ filepath' = dir[j]
          /\ vintage' = extract_vintage_date(dir[j])
          /\ df' = parse_monthly_series(dir[j])
          /\ dataframes' = IF parse_monthly_series(dir[j]) # <<>>
                           THEN Append(dataframes, parse_monthly_series(dir[j]))
                           ELSE dataframes
    /\ UNCHANGED <<pc, i, dir, all_data, consolidated, exported, started,
                   raised, latest_data, ts, forecast_steps, forecast_df,
                   start, end, delay_seconds, log>>

ListingDone == DOMAIN dir = {pending[k] : k \in 1..Len(pending)}

\* consolidate_all_data, lines 81-82, and the assignment of line 202
ConsolidateReturn ==
    /\ pc = "consolidate"
    /\ ListingDone
    /\ dataframes # <<>>
    /\ all_data' = Concat(dataframes)
    /\ consolidated' = Concat(dataframes)
    /\ pc' = "visualise"
    /\ UNCHANGED <<i, dir, pending, filepath, vintage, df, dataframes,
                   exported, started, raised, latest_data, ts,
                   forecast_steps, forecast_df,
                   start, end, delay_seconds, log>>

\* Mutant of ConsolidateRaise: the error is recorded and the script goes on.
ConsolidateRaiseAndGoOn ==
    /\ pc = "consolidate"
    /\ DOMAIN dir = {pending[k] : k \in 1..Len(pending)}
    /\ dataframes = <<>>
    /\ raised' = NoDataError
    /\ pc' = "visualise"
    /\ UNCHANGED <<i, dir, pending, filepath, vintage, df, dataframes,
                   all_data, consolidated, exported, started, latest_data,
                   ts, forecast_steps, forecast_df,
                   start, end, delay_seconds, log>>

\* consolidate_all_data, lines 83-84: the ValueError is caught nowhere and
\* ends the script.
ConsolidateRaise ==
    /\ pc = "consolidate"
    /\ ListingDone
    /\ dataframes = <<>>
    /\ raised' = NoDataError
    /\ pc' = "failed"
    /\ UNCHANGED <<i, dir, pending, filepath, vintage, df, dataframes,
                   all_data, consolidated, exported, started, latest_data,
                   ts, forecast_steps, forecast_df,
                   start, end, delay_seconds, log>>

\* create_visualisations up to line 124, where list.index raises when no row
\* is of default_month.
VisualiseRaise ==
    /\ pc = "visualise"
    /\ default_month \notin DatesOf(all_data.rows)
    /\ started' = started \cup {"visualise"}
    /\ all_data' = WithMonthLabel(all_data)
    /\ exported' = exported \cup {"ONS_UK_Vacancies_Consolidated.csv",
                                  "vacancy_revisions_Feb2024.html"}
    /\ raised' = "ValueError: not in list"
    /\ pc' = "failed"
    /\ UNCHANGED <<i, dir, pending, filepath, vintage, df, dataframes,
                   consolidated, latest_data, ts, forecast_steps, forecast_df,
                   start, end, delay_seconds, log>>

\* create_visualisations, to its end
VisualiseReturn ==
    /\ pc = "visualise"
    /\ default_month \in DatesOf(all_data.rows)
    /\ started' = started \cup {"visualise"}
    /\ all_data' = WithMonthLabel(all_data)
    /\ exported' = exported \cup {"ONS_UK_Vacancies_Consolidated.csv",
                                  "vacancy_revisions_Feb2024.html",
                                  "vacancy_revisions_dropdown.html"}
    /\ pc' = "canonical"
    /\ UNCHANGED <<i, dir, pending, filepath, vintage, df, dataframes,
                   consolidated, raised, latest_data, ts, forecast_steps,
                   forecast_df,
                   start, end, delay_seconds, log>>

\* forecast_vacancies, lines 135-136
BuildCanonical ==
    /\ pc = "canonical"
    /\ started' = started \cup {"canonical"}
    /\ \E picks \in SUBSET (1..Len(all_data.rows)) :
          /\ IsGroupTails(all_data.rows, picks)
          /\ latest_data' = SortByDate(all_data.rows, picks)
          /\ ts' = AsFreq(SortByDate(all_data.rows, picks))
    /\ pc' = "diagnostics"
    /\ UNCHANGED <<i, dir, pending, filepath, vintage, df, dataframes,
                   all_data, consolidated, exported, raised, forecast_steps,
                   forecast_df,
                   start, end, delay_seconds, log>>

\* forecast_vacancies, lines 139-161: the unit-root test, the correlograms,
\* the fit and the portmanteau test are library calls on ts; each of them
\* either returns or raises (too few values, missing values, no convergence).
DiagnosticsRaise ==
    /\ pc = "diagnostics"
    /\ started' = started \cup {"diagnostics"}
    /\ raised' = "statsmodels error"
    /\ pc' = "failed"
    /\ UNCHANGED <<i, dir, pending, filepath, vintage, df, dataframes,
                   all_data, consolidated, exported, latest_data, ts,
                   forecast_steps, forecast_df,
                   start, end, delay_seconds, log>>

DiagnosticsReturn ==
    /\ pc = "diagnostics"
    /\ started' = started \cup {"diagnostics"}
    /\ pc' = "forecast"
    /\ UNCHANGED <<i, dir, pending, filepath, vintage, df, dataframes,
                   all_data, consolidated, exported, raised, latest_data, ts,
                   forecast_steps, forecast_df,
                   start, end, delay_seconds, log>>

\* forecast_vacancies, lines 163-195 (the numeric columns are the library's)
Forecast ==
    /\ pc = "forecast"
    /\ started' = started \cup {"forecast"}
    /\ forecast_df' = [k \in 1..forecast_steps |->
                         [Date |-> ForecastDates(ts, forecast_steps)[k]]]
    /\ exported' = exported \cup {"vacancy_forecast.html"}
    /\ pc' = "done"
    /\ UNCHANGED <<i, dir, pending, filepath, vintage, df, dataframes,
                   all_data, consolidated, raised, latest_data, ts,
                   forecast_steps,
                   start, end, delay_seconds, log>>

\* parse_monthly_series, line 60
ExtractVintage ==
    /\ pc = "extract"
    /\ vintage' = extract_vintage_date(filepath)
    /\ pc' = "parse"
    /\ UNCHANGED <<i, dir, pending, filepath, df, dataframes, all_data,
                   consolidated, exported, started, raised, latest_data, ts,
                   forecast_steps, forecast_df,
                   start, end, delay_seconds, log>>

\* parse_monthly_series, lines 61-71
ParseSeries ==
    /\ pc = "parse"
    /\ df' = parse_monthly_series(filepath)
    /\ pc' = "parsed"
    /\ UNCHANGED <<i, dir, pending, filepath, vintage, dataframes, all_data,
                   consolidated, exported, started, raised, latest_data, ts,
                   forecast_steps, forecast_df,
                   start, end, delay_seconds, log>>

\* ---------------------------------------------------------- specifications
NoFile == File(FALSE, FALSE, <<>>)

\* forecast_steps=6 of the call at line 208
ScriptForecastSteps == 6
\* delay_seconds=3 of the call at line 199
ScriptDelaySeconds == 3

\* The script, lines 197-208.
Init ==
    /\ pc = "download"
    /\ i = StartId
    /\ dir = <<>>
    /\ pending = <<>>
    /\ filepath = NoFile
    /\ vintage = NaT
    /\ df = <<>>
    /\ dataframes = <<>>
    /\ all_data = EmptyTable
    /\ consolidated = EmptyTable
    /\ exported = {}
    /\ started = {}
    /\ raised = "none"
    /\ latest_data = <<>>
    /\ ts = <<>>
    /\ forecast_steps = ScriptForecastSteps
    /\ forecast_df = <<>>
    /\ start = StartId
    /\ end = 1
    /\ delay_seconds = ScriptDelaySeconds
    /\ log = <<>>

Next ==
    \/ DownloadOk
    \/ DownloadFail
    \/ ConsolidateFile
    \/ ConsolidateReturn
    \/ ConsolidateRaise
    \/ VisualiseRaise
    \/ VisualiseReturn
    \/ BuildCanonical
    \/ DiagnosticsRaise
    \/ DiagnosticsReturn
    \/ Forecast

Spec == Init /\ [][Next]_vars

\* parse_monthly_series on one generated file.
InitParser ==
    /\ pc = "extract"
    /\ i = 0
    /\ dir = <<>>
    /\ pending = <<>>
    /\ filepath \in GeneratedFiles
    /\ vintage = NaT
    /\ df = <<>>
    /\ dataframes = <<>>
    /\ all_data = EmptyTable
    /\ consolidated = EmptyTable
    /\ exported = {}
    /\ started = {}
    /\ raised = "none"
    /\ latest_data = <<>>
    /\ ts = <<>>
    /\ forecast_steps = ScriptForecastSteps
    /\ forecast_df = <<>>
    /\ start = 0
    /\ end = 1
    /\ delay_seconds = 0
    /\ log = <<>>

NextParser == ExtractVintage \/ ParseSeries

SpecParser == InitParser /\ [][NextParser]_vars

\* forecast_vacancies on one generated Revision Table.
InitForecast ==
    /\ pc = "canonical"
    /\ i = 0
    /\ dir = <<>>
    /\ pending = <<>>
    /\ filepath = NoFile
    /\ vintage = NaT
    /\ df = <<>>
    /\ dataframes = <<>>
    /\ all_data \in GeneratedTables
    /\ consolidated = all_data
    /\ exported = {}
    /\ started = {}
    /\ raised = "none"
    /\ latest_data = <<>>
    /\ ts = <<>>
    /\ forecast_steps \in 1..MaxSteps
    /\ forecast_df = <<>>
    /\ start = 0
    /\ end = 1
    /\ delay_seconds = 0
    /\ log = <<>>

NextForecast ==
    \/ BuildCanonical
    \/ DiagnosticsRaise
    \/ DiagnosticsReturn
    \/ Forecast

SpecForecast == InitForecast /\ [][NextForecast]_vars

\* ------------------------------------------------------------- properties
Known(v) == v # NaT
RowsOfMonth(rows, d) == {k \in 1..Len(rows) : rows[k].Date = d}
CanonicalBuilt == latest_data # <<>>

\* C1: in the canonical selection of forecast_vacancies, a month that has two
\* observations with known vintages V1 < V2 never gets the V1 observation,
\* and its selected value is the value of an observation of that month with
\* the maximum vintage.
C1_LatestVintageSelected ==
    CanonicalBuilt =>
        \A k \in 1..Len(latest_data) :
            LET sel == latest_data[k]
                obs == RowsOfMonth(all_data.rows, sel.Date)
                known == {j \in obs : Known(all_data.rows[j].Vintage)}
                newest == {j \in known : \A a \in known :
                              all_data.rows[a].Vintage[1]
                                  <= all_data.rows[j].Vintage[1]}
            IN  (\E a, b \in known :
                    all_data.rows[a].Vintage[1] < all_data.rows[b].Vintage[1])
                => /\ sel.idx \notin (known \ newest)
                   /\ \E j \in newest : all_data.rows[j].Value = sel.Value

\* C2: an observation whose vintage is unknown is never the canonical value
\* of a month that also has an observation with a known vintage.
C2_UnknownVintageNeverSelected ==
    CanonicalBuilt =>
        \A k \in 1..Len(latest_data) :
            ~Known(latest_data[k].Vintage) =>
                \A j \in RowsOfMonth(all_data.rows, latest_data[k].Date) :
                    ~Known(all_data.rows[j].Vintage)

\* C3: the table returned by consolidate_all_data holds at most one
\* observation per (month, vintage) pair.
C3_OnePerMonthAndVintage ==
    \A a, b \in 1..Len(consolidated.rows) :
        (/\ consolidated.rows[a].Date = consolidated.rows[b].Date
         /\ consolidated.rows[a].Vintage = consolidated.rows[b].Vintage)
        => a = b

\* C4: parse_monthly_series returns no observation of a row whose period
\* label is not exactly four digits, one space and a three-letter month
\* abbreviation, nor of a row whose value is not a number; what it returns
\* for a kept row is that row's month and that row's number.
UpperSeq(s) == [k \in 1..Len(s) |-> ToUpper(s[k])]
MonthCodes == {UpperSeq(MonthAbbr[m]) : m \in 1..12}
IsMonthlyLabel(s) ==
    /\ Len(s) = 8
    /\ \A k \in 1..4 : s[k] \in {Digits[n] : n \in 1..10}
    /\ s[5] = " "
    /\ SubSeq(s, 6, 8) \in MonthCodes
IsNumberText(s) == ToNumeric(StripQuotes(s)) # NaN
KeptIndexes == {df[k].idx : k \in 1..Len(df)}

C4_OnlyMonthlyNumericRows ==
    pc = "parsed" =>
        /\ \A j \in 1..Len(filepath.lines) :
              (\/ ~IsMonthlyLabel(filepath.lines[j].RawDate)
               \/ ~IsNumberText(filepath.lines[j].Value))
              => j \notin KeptIndexes
        /\ \A k \in 1..Len(df) :
              LET line == filepath.lines[df[k].idx]
              IN  /\ df[k].Value = ToNumeric(StripQuotes(line.Value))[1]
                  /\ MonthOf(df[k].Date) \in 1..12
                  /\ UpperSeq(MonthAbbr[MonthOf(df[k].Date)])
                        = SubSeq(line.RawDate, 6, 8)
                  /\ IntToText(YearOf(df[k].Date), 4)
                        = SubSeq(line.RawDate, 1, 4)

\* A label that starts like a monthly one and goes on was excluded, beside a
\* monthly row that was kept.
C4_Witness ==
    /\ pc = "parsed"
    /\ filepath.lines = <<JanLong, Jan100>>
    /\ KeptIndexes = {2}
    /\ df[1].Value = 100

\* C5: extract_vintage_date returns the first DD-MM-YYYY date of the first
\* line that has both the release-date marker and such a date; it returns the
\* missing timestamp when there is no such line, when those digits are no
\* calendar date, or when the file cannot be read.
HasMarkerAndDate(line) ==
    /\ Contains(LineText(line), ReleaseMarker)
    /\ \E p \in 1..Len(LineText(line)) : DatePatternAt(LineText(line), p)

FirstDateOf(text) ==
    LET p == CHOOSE q \in 1..Len(text) :
                DatePatternAt(text, q)
                /\ \A r \in 1..(q - 1) : ~DatePatternAt(text, r)
    IN  [day |-> DigitsVal(text, p, p + 1),
         month |-> DigitsVal(text, p + 3, p + 4),
         year |-> DigitsVal(text, p + 6, p + 9)]

IsCalendarDate(t) ==
    /\ t.month \in 1..12
    /\ t.day \in 1..DaysInMonth(t.year, t.month)

NoDataRaised == raised = NoDataError
Observations(rows) ==
    [k \in 1..Len(rows) |-> <<rows[k].Date, rows[k].Value, rows[k].Vintage>>]
YieldsNothing(f) == parse_monthly_series(f) = <<>>

C6_ConsolidateAllOrNothing ==
    /\ NoDataRaised =>
          /\ ListingDone
          /\ \A j \in DOMAIN dir : YieldsNothing(dir[j])
    /\ (pc \notin {"download", "consolidate"} /\ ~NoDataRaised) =>
          /\ ListingDone
          /\ Len(pending) = Cardinality(DOMAIN dir)
          /\ \E j \in DOMAIN dir : ~YieldsNothing(dir[j])
          /\ Observations(consolidated.rows)
                = Flatten([k \in 1..Len(pending) |->
                             Observations(parse_monthly_series(dir[pending[k]]))])

\* An unreadable file came first in the listing and the table was returned
\* with the rows of the file after it.
C6_Witness ==
    /\ pc = "visualise"
    /\ Len(pending) = 2
    /\ ~dir[pending[1]].readable
    /\ ~YieldsNothing(dir[pending[2]])
    /\ Len(consolidated.rows) = Len(parse_monthly_series(dir[pending[2]]))

\* C7: the canonical series has exactly one entry for every month from the
\* first to the last month of the Revision Table, in order; a month without
\* observation holds a missing value, any other the value of one of its
\* observations.
Ord(d) == YearOf(d) * 12 + MonthOf(d) - 1
FirstMonth(rows) == CHOOSE d \in DatesOf(rows) : \A e \in DatesOf(rows) : d <= e
LastMonth(rows) == CHOOSE d \in DatesOf(rows) : \A e \in DatesOf(rows) : e <= d

C7_OneEntryPerGridMonth ==
    CanonicalBuilt =>
        /\ Len(ts) = Ord(LastMonth(all_data.rows))
                        - Ord(FirstMonth(all_data.rows)) + 1
        /\ \A k \in 1..Len(ts) :
              /\ MonthOf(ts[k].Date) \in 1..12
              /\ Ord(ts[k].Date) = Ord(FirstMonth(all_data.rows)) + k - 1
              /\ IF RowsOfMonth(all_data.rows, ts[k].Date) = {}
                 THEN ts[k].Value = NaN
                 ELSE \E j \in RowsOfMonth(all_data.rows, ts[k].Date) :
                         ts[k].Value = <<all_data.rows[j].Value>>

\* November 2023 and January 2024 are observed, December 2023 is not: the
\* series has the three months, December with a missing value.
C7_Witness ==
    /\ CanonicalBuilt
    /\ Len(ts) = 3
    /\ ts[1].Date = 202311
    /\ ts[2] = [Date |-> 202312, Value |-> NaN]
    /\ ts[3].Date = 202401

\* C8: the forecast table has forecast_steps rows, the k-th of which is the
\* k-th month after the last month of the canonical series.
C8_ForecastMonthsContinueSeries ==
    pc = "done" =>
        /\ Len(forecast_df) = forecast_steps
        /\ \A k \in 1..Len(forecast_df) :
              /\ MonthOf(forecast_df[k].Date) \in 1..12
              /\ Ord(forecast_df[k].Date) = Ord(LastMonth(all_data.rows)) + k

\* A two-step forecast after November 2023 crosses the year boundary.
C8_Witness ==
    /\ pc = "done"
    /\ ts[Len(ts)].Date = 202311
    /\ forecast_df = <<[Date |-> 202312], [Date |-> 202401]>>

\* C9: after create_visualisations and forecast_vacancies the table is the
\* one consolidate_all_data returned: same rows, same columns, same values.
C9_RevisionTableUnchanged ==
    pc \in {"canonical", "diagnostics", "forecast", "done"} =>
        all_data = consolidated

\* C10: when consolidate_all_data raises, the run is over: nothing is
\* exported and no later stage is ever started; a stage is only started, and a
\* file only exported, after consolidation returned a non-empty table.
C10_NoDataHaltsRun ==
    /\ NoDataRaised =>
          /\ pc = "failed"
          /\ ~ENABLED Next
          /\ exported = {}
          /\ started = {}
          /\ latest_data = <<>>
          /\ forecast_df = <<>>
    /\ (started # {} \/ exported # {}) =>
          /\ ~NoDataRaised
          /\ consolidated.rows # <<>>
          /\ \E j \in DOMAIN dir : ~YieldsNothing(dir[j])

\* Files were downloaded and read, none yielded an observation, and the run
\* ended in consolidate_all_data.
C10_Witness ==
    /\ NoDataRaised
    /\ pc = "failed"
    /\ Cardinality(DOMAIN dir) = StartId
    /\ \E j \in DOMAIN dir : dir[j].readable /\ dir[j].tabular

\* download_csv_files(start, end, delay_seconds) on an empty directory.
InitDownload ==
    /\ start \in 1..StartId
    /\ end \in 1..StartId
    /\ delay_seconds \in 0..MaxDelay
    /\ pc = IF start >= end THEN "download" ELSE "consolidate"
    /\ i = start
    /\ dir = <<>>
    /\ pending = <<>>
    /\ filepath = NoFile
    /\ vintage = NaT
    /\ df = <<>>
    /\ dataframes = <<>>
    /\ all_data = EmptyTable
    /\ consolidated = EmptyTable
    /\ exported = {}
    /\ started = {}
    /\ raised = "none"
    /\ latest_data = <<>>
    /\ ts = <<>>
    /\ forecast_steps = ScriptForecastSteps
    /\ forecast_df = <<>>
    /\ log = <<>>

NextDownload == DownloadOk \/ DownloadFail

SpecDownload == InitDownload /\ [][NextDownload]_vars

\* C11: download_csv_files requests every identifier from start down to end
\* exactly once, in descending order, whatever requests fail; a successful
\* request is followed by the write of v{i}.csv, a failed one by no write for
\* i, and either by a sleep of delay_seconds before the next request.
IsRequest(e) == e.op = "request"
Requests == SelectSeq(log, IsRequest)
WrittenIds == {log[p].arg : p \in {q \in 1..Len(log) : log[q].op = "write"}}

====
